---- MODULE Spec2Model ----
(***************************************************************************)
(* Companies House ownership API (src/main.py).                            *)
(*                                                                         *)
(* The model follows one POST /ownership-structure request:                *)
(*   search_company_by_name -> build_ownership_tree (recursive, modelled   *)
(*   with an explicit call stack) -> count_nodes -> OwnershipResponse.     *)
(* The Companies House provider is the environment: the search response is *)
(* drawn in Init, each company's PSC response is drawn when it is first    *)
(* fetched and served unchanged afterwards (a fixed control graph).        *)
(*                                                                         *)
(* Representation.  Text that the code transforms (lower(), strip(),       *)
(* substring tests, the " (circular reference)" suffix) is a sequence of   *)
(* one-character strings.  An optional JSON value is a sequence of length  *)
(* at most one: <<>> is None / key absent, <<v>> is the value v.           *)
(***************************************************************************)
EXTENDS Integers, Sequences, FiniteSets, TLC

(***************************************************************************)
(* Bounds of the model.                                                    *)
(***************************************************************************)
MaxQueryLen == 1      \* characters in the requested company name
MaxTitleLen == 1      \* characters in a search result's title
MaxResults  == 2      \* items in a search response
MaxPscs     == 2      \* items in one PSC response
MaxRecords  == 3      \* PSC records the provider holds over all companies
MaxDepth    == 6      \* frames the interpreter allows on the call stack

None    == <<>>
Some(x) == <<x>>

\* Characters of requested names and of titles: a name matches a title only
\* through lower(), of the title ("a" in "A") or of the name ("B" in "b").
QueryAlphabet == {"a", "B"}
TitleAlphabet == {"A", "b"}

\* All sequences over S of length at most n.
SeqsUpTo(S, n) == UNION {[1..k -> S] : k \in 0..n}

(***************************************************************************)
(* Python string operations, on sequences of characters.                   *)
(***************************************************************************)
LowerChar(c) ==
    CASE c = "A" -> "a"
      [] c = "B" -> "b"
      [] c = "K" -> "k"
      [] c = "U" -> "u"
      [] c = "F" -> "f"
      [] c = "R" -> "r"
      [] OTHER   -> c

\* str.lower()
Lower(s) == [i \in 1..Len(s) |-> LowerChar(s[i])]

\* needle in hay (substring test on str)
Contains(hay, needle) ==
    \E k \in 0..(Len(hay) - Len(needle)) :
        SubSeq(hay, k + 1, k + Len(needle)) = needle

RECURSIVE LStrip(_)
LStrip(s) == IF s # <<>> /\ Head(s) = " " THEN LStrip(Tail(s)) ELSE s

RECURSIVE RStrip(_)
RStrip(s) ==
    IF s # <<>> /\ s[Len(s)] = " " THEN RStrip(SubSeq(s, 1, Len(s) - 1)) ELSE s

\* str.strip()
Strip(s) == RStrip(LStrip(s))

(***************************************************************************)
(* The provider's data.                                                    *)
(***************************************************************************)
Companies == {"001", "002", "003"}

\* A registration_number that is a non-empty JSON array: truthy, and
\* unhashable, so that `company_number in visited` raises TypeError.
ListNumber == "['002']"

Unhashable(n) == n = ListNumber

\* Search result items: company_status, title, company_number.
SearchItems ==
    [company_status : {"active", "dissolved"},
     title          : SeqsUpTo(TitleAlphabet, MaxTitleLen),
     company_number : {None, Some("001")}]

\* What GET /search/companies can come to: a transport exception, or a
\* status code with the items of the body.
SearchResponses ==
    [status : {"transport", "500"}, items : {<<>>}]
      \cup [status : {"200"}, items : SeqsUpTo(SearchItems, MaxResults)]

Queries == SeqsUpTo(QueryAlphabet, MaxQueryLen)


\* Characters of the strings the code compares against or appends.
Str_uk       == <<"u", "k">>
Str_wales    == <<"w", "a", "l", "e", "s">>
Str_england  == <<"e", "n", "g", "l", "a", "n", "d">>
Str_scotland == <<"s", "c", "o", "t", "l", "a", "n", "d">>
Str_northern_ireland ==
    <<"n", "o", "r", "t", "h", "e", "r", "n", " ", "i", "r", "e", "l", "a", "n", "d">>
Str_united_kingdom ==
    <<"u", "n", "i", "t", "e", "d", " ", "k", "i", "n", "g", "d", "o", "m">>

UkCountries ==
    {Str_england, Str_wales, Str_scotland, Str_northern_ireland,
     Str_united_kingdom, Str_uk}

CircularSuffix ==
    <<" ", "(", "c", "i", "r", "c", "u", "l", "a", "r", " ",
      "r", "e", "f", "e", "r", "e", "n", "c", "e", ")">>

\* The provider's kind strings, as their hyphen-separated parts; the
\* substring tests of determine_entity_type look for one of these parts.
KindIndividual == <<"individual", "person-with-significant-control">>
KindCorporate  == <<"corporate-entity", "person-with-significant-control">>
KindLegal      == <<"legal-person", "person-with-significant-control">>
KindSecure     == <<"super-secure", "person-with-significant-control">>

KindContains(kind, part) == \E i \in 1..Len(kind) : kind[i] = part

\* A raw control record.  kind = None is `"kind": null` in the body.
Psc(kind, name, forename, surname, residence, registered, ceased, number, self) ==
    [kind                 |-> kind,
     name                 |-> name,
     name_elements        |-> [forename |-> forename, surname |-> surname],
     country_of_residence |-> residence,
     identification       |-> [country_registered  |-> registered,
                               registration_number |-> number],
     ceased_on            |-> ceased,
     natures_of_control   |-> <<"ownership-of-shares-25-to-50-percent">>,
     links                |-> [self |-> self]]

\* An individual given by name elements, padded, without a self link.
PscAnn == Psc(Some(KindIndividual), None, <<"A">>, <<>>, Some(<<"U", "K">>),
              None, None, None, None)
\* An individual who ceased to be a PSC.
PscBob == Psc(Some(KindIndividual), Some(<<"B">>), <<>>, <<>>, None,
              None, Some("2019-05-01"), None, Some("/psc/bob"))
\* An individual whose record carries an empty cessation marker.
PscCy == Psc(Some(KindSecure), Some(<<"C">>), <<>>, <<>>, None,
             None, Some(""), None, Some("/psc/cy"))
\* A company registered abroad, with a registration number.
PscForeign == Psc(Some(KindCorporate), Some(<<"F">>), <<>>, <<>>, None,
                  Some(<<"F", "R">>), None, Some("002"), Some("/psc/f"))
\* A UK legal person without a registration number.
PscUkNoNumber == Psc(Some(KindLegal), Some(<<"L">>), <<>>, <<>>, Some(<<"U", "K">>),
                     None, None, None, Some("/psc/l"))
\* A UK company registered under number c.
PscUk(c) == Psc(Some(KindCorporate), Some(<<"K", c>>), <<>>, <<>>, None,
                Some(<<"U", "K">>), None, Some(c), Some("/psc/" \o c))
\* A UK company whose registration_number is a JSON array.
PscUkList == Psc(Some(KindCorporate), Some(<<"X">>), <<>>, <<>>, None,
                 Some(<<"u", "k">>), None, Some(ListNumber), Some("/psc/x"))
\* A record whose kind is null.
PscNullKind == Psc(None, Some(<<"N">>), <<>>, <<>>, None,
                   None, None, None, Some("/psc/n"))

PscRecords ==
    {PscAnn, PscBob, PscCy, PscForeign, PscUkNoNumber, PscUkList, PscNullKind}
      \cup {PscUk(c) : c \in Companies}

\* What GET /company/{n}/persons-with-significant-control can come to,
\* with at most `room` items.
PscResponses(room) ==
    [status : {"transport", "404", "500"}, items : {<<>>}]
      \cup [status : {"200"}, items : SeqsUpTo(PscRecords, room)]

(***************************************************************************)
(* search_company_by_name                                                  *)
(***************************************************************************)
\* The first loop with the two lower() calls left out.
RECURSIVE FirstNameMatchCased(_, _)
FirstNameMatchCased(companies, company_name) ==
    IF companies = <<>> THEN None
    ELSE IF /\ Head(companies).company_status = "active"
            /\ Contains(Head(companies).title, company_name)
         THEN Some(Head(companies))
         ELSE FirstNameMatchCased(Tail(companies), company_name)

\* The first loop: the first active company whose title contains the name.
RECURSIVE FirstNameMatch(_, _)
FirstNameMatch(companies, company_name) ==
    IF companies = <<>> THEN None
    ELSE IF /\ Head(companies).company_status = "active"
            /\ Contains(Lower(Head(companies).title), Lower(company_name))
         THEN Some(Head(companies))
         ELSE FirstNameMatch(Tail(companies), company_name)

\* The second loop: the first active company.
RECURSIVE FirstActive(_)
FirstActive(companies) ==
    IF companies = <<>> THEN None
    ELSE IF Head(companies).company_status = "active"
         THEN Some(Head(companies))
         ELSE FirstActive(Tail(companies))

\* get_auth_headers raises HTTPException(500) when no key is configured.
AuthHeadersRaise(key) == ~key

\* search_company_by_name: None, or Some(the chosen item).  Whatever is
\* raised inside the try block, get_auth_headers' HTTPException included,
\* is caught by `except Exception` and becomes None.
SearchCompanyByName(key, company_name, resp) ==
    IF AuthHeadersRaise(key) \/ resp.status = "transport" THEN None
    ELSE IF resp.status = "200"
         THEN IF FirstNameMatch(resp.items, company_name) # None
              THEN FirstNameMatch(resp.items, company_name)
              ELSE FirstActive(resp.items)
         ELSE None

(***************************************************************************)
(* get_company_pscs                                                        *)
(***************************************************************************)
\* Every failure, the transport exception included, becomes [].
GetCompanyPscs(key, resp) ==
    IF AuthHeadersRaise(key) \/ resp.status = "transport" THEN <<>>
    ELSE IF resp.status = "200" THEN resp.items
    ELSE <<>>

(***************************************************************************)
(* determine_entity_type                                                   *)
(***************************************************************************)
\* `"individual" in kind` raises TypeError when kind is None.
EntityTypeRaises(psc) == psc.kind = None

\* country_of_residence or identification.country_registered
PscCountry(psc) ==
    IF psc.country_of_residence # None /\ psc.country_of_residence[1] # <<>>
    THEN psc.country_of_residence
    ELSE psc.identification.country_registered

DetermineEntityType(psc) ==
    LET kind == psc.kind[1] IN
    IF KindContains(kind, "individual") THEN "individual"
    ELSE IF KindContains(kind, "corporate-entity") \/ KindContains(kind, "legal-person")
         THEN IF /\ PscCountry(psc) # None
                 /\ PscCountry(psc)[1] # <<>>
                 /\ Lower(PscCountry(psc)[1]) \in UkCountries
              THEN "uk_company"
              ELSE "non_uk_company"
         ELSE "individual"

(***************************************************************************)
(* PSCNode and count_nodes                                                 *)
(***************************************************************************)
PSCNode(id, name, type, number, residence, nature, error) ==
    [id                   |-> id,
     name                 |-> name,
     type                 |-> type,
     company_number       |-> number,
     country_of_residence |-> residence,
     nature_of_control    |-> nature,
     children             |-> <<>>,
     is_active            |-> TRUE,
     error                |-> error]

RECURSIVE SumSeq(_)
SumSeq(s) == IF s = <<>> THEN 0 ELSE Head(s) + SumSeq(Tail(s))

\* Only the node and its direct children counted.
count_nodes_shallow(node) == 1 + Len(node.children)

RECURSIVE count_nodes(_)
count_nodes(node) ==
    1 + SumSeq([i \in 1..Len(node.children) |-> count_nodes(node.children[i])])

(***************************************************************************)
(* State of one request.                                                   *)
(***************************************************************************)
VARIABLES
    api_key,          \* whether COMPANIES_HOUSE_API_KEY is configured
    company_name,     \* request.company_name, while it is still read
    search_response,  \* what the provider answers to the search, likewise
    served,           \* company number -> the PSC response served for it
    pc,               \* position of get_ownership_structure
    company_info,     \* result of search_company_by_name
    stack,            \* frames of build_ownership_tree, innermost last
    sets,             \* the set objects allocated for `visited`
    errors,           \* the errors list shared by all calls
    outcome,          \* HTTP status of the request, "" while it runs
    response          \* the OwnershipResponse returned
                      \* (processing_time, a wall-clock reading, is left out)

vars == <<api_key, company_name, search_response, served, pc, company_info,
          stack, sets, errors, outcome, response>>

EmptyNode == PSCNode("", <<>>, "", None, None, <<>>, None)

\* The frame of a call build_ownership_tree(number, name, visited, errors).
\* visited is the index in `sets` of the set object passed.
Frame(number, name, visited) ==
    [company_number |-> number,
     company_name   |-> name,
     visited        |-> visited,
     pc             |-> "enter",
     root_node      |-> EmptyNode,   \* the node the call returns
     pscs           |-> <<>>,
     i              |-> 1,           \* position of `for psc in pscs`
     psc_node       |-> EmptyNode]

Top == stack[Len(stack)]

SetTop(f) == [stack EXCEPT ![Len(stack)] = f]

\* The state when the request arrives, for the names it may ask for and
\* the answers the search may get.
InitFrom(names, answers) ==
    /\ api_key \in BOOLEAN
    /\ company_name \in {Some(q) : q \in names}
    /\ search_response \in {Some(r) : r \in answers}
    /\ served = [c \in Companies |-> None]
    /\ pc = "start"
    /\ company_info = None
    /\ stack = <<>>
    /\ sets = <<>>
    /\ errors = <<>>
    /\ outcome = ""
    /\ response = None

Init == InitFrom(Queries, SearchResponses)

(***************************************************************************)
(* get_ownership_structure                                                 *)
(***************************************************************************)
\* line 237: company_info = await search_company_by_name(...)
SearchCompany ==
    /\ pc = "start"
    /\ company_info' = SearchCompanyByName(api_key, company_name[1], search_response[1])
    /\ pc' = "searched"
    /\ UNCHANGED <<api_key, company_name, search_response, served, stack, sets,
                   errors, outcome, response>>

\* lines 239-240: HTTPException(404), re-raised at 266-267
RaiseNotFound ==
    /\ pc = "searched"
    /\ company_info = None
    /\ outcome' = "404"
    /\ pc' = "done"
    /\ UNCHANGED <<api_key, company_name, search_response, served, company_info,
                   stack, sets, errors, response>>

\* lines 245-246: HTTPException(400)
RaiseNoNumber ==
    /\ pc = "searched"
    /\ company_info # None
    /\ company_info[1].company_number = None
    /\ outcome' = "400"
    /\ pc' = "done"
    /\ UNCHANGED <<api_key, company_name, search_response, served, company_info,
                   stack, sets, errors, response>>

\* lines 242-254: the call build_ownership_tree(number, title, set(), errors).
\* The request's name, the search response and company_info are not read
\* again after line 243; they are dropped here (None).
CallBuild ==
    /\ pc = "searched"
    /\ company_info # None
    /\ company_info[1].company_number # None
    /\ sets' = <<{}>>
    /\ stack' = <<Frame(company_info[1].company_number[1], company_info[1].title, 1)>>
    /\ pc' = "building"
    /\ company_name' = None
    /\ search_response' = None
    /\ company_info' = None
    /\ UNCHANGED <<api_key, served, errors, outcome, response>>

\* lines 256-264: count_nodes and the OwnershipResponse
Respond ==
    /\ pc = "building"
    /\ Len(stack) = 1
    /\ Top.pc = "return"
    /\ response' = Some([root_company |-> Top.root_node,
                         total_nodes  |-> count_nodes(Top.root_node),
                         errors       |-> errors])
    /\ outcome' = "200"
    /\ pc' = "done"
    /\ stack' = <<>>
    /\ UNCHANGED <<api_key, company_name, search_response, served, company_info,
                   sets, errors>>

(***************************************************************************)
(* build_ownership_tree                                                    *)
(***************************************************************************)
\* lines 138-145: the cycle check hits
CycleCheckHit ==
    /\ pc = "building"
    /\ Top.pc = "enter"
    /\ ~Unhashable(Top.company_number)
    /\ Top.company_number \in sets[Top.visited]
    /\ stack' = SetTop([Top EXCEPT
          !.root_node = PSCNode(Top.company_number,
                                Top.company_name \o CircularSuffix,
                                "uk_company", Some(Top.company_number),
                                None, <<>>, Some("Circular reference detected")),
          !.pc = "return"])
    /\ UNCHANGED <<api_key, company_name, search_response, served, pc,
                   company_info, sets, errors, outcome, response>>

\* visited.add forgotten: the set object is left as it was.
AddVisitedForgotten(heap, ref, number) == heap

\* line 147: visited.add(company_number) changes the set object in place
AddVisited(heap, ref, number) == [heap EXCEPT ![ref] = @ \cup {number}]

\* lines 147-155: visited.add(company_number); root_node = PSCNode(...)
EnterCompany ==
    /\ pc = "building"
    /\ Top.pc = "enter"
    /\ ~Unhashable(Top.company_number)
    /\ Top.company_number \notin sets[Top.visited]
    /\ sets' = AddVisited(sets, Top.visited, Top.company_number)
    /\ stack' = SetTop([Top EXCEPT
          !.root_node = PSCNode(Top.company_number, Top.company_name,
                                "uk_company", Some(Top.company_number),
                                None, <<>>, None),
          !.pc = "fetch"])
    /\ UNCHANGED <<api_key, company_name, search_response, served, pc,
                   company_info, errors, outcome, response>>

\* Records the provider has served so far, over the companies in S.
RECURSIVE RecordsServed(_)
RecordsServed(S) ==
    IF S = {} THEN 0
    ELSE LET c == CHOOSE x \in S : TRUE IN
         (IF served[c] = None THEN 0 ELSE Len(served[c][1].items))
           + RecordsServed(S \ {c})

Min(a, b) == IF a <= b THEN a ELSE b

\* The provider's answer for company c: the one already served for c, or
\* any answer that keeps the provider's records within MaxRecords.
ProviderAnswers(c) ==
    IF served[c] # None THEN {served[c][1]}
    ELSE PscResponses(Min(MaxPscs, MaxRecords - RecordsServed(Companies)))

\* line 159: pscs = await get_company_pscs(company_number)
FetchPscs ==
    /\ pc = "building"
    /\ Top.pc = "fetch"
    /\ \E resp \in ProviderAnswers(Top.company_number) :
          /\ served' = [served EXCEPT ![Top.company_number] = Some(resp)]
          /\ stack' = SetTop([Top EXCEPT
                !.pscs = GetCompanyPscs(api_key, resp), !.i = 1, !.pc = "loop"])
    /\ UNCHANGED <<api_key, company_name, search_response, pc, company_info,
                   sets, errors, outcome, response>>

\* The record the loop is at.
InLoop == pc = "building" /\ Top.pc = "loop" /\ Top.i <= Len(Top.pscs)

CurrentPsc == Top.pscs[Top.i]

\* line 163: `if not psc.get("ceased_on") is None`
SkipsPsc(psc) == psc.ceased_on # None

\* line 166: psc.get("name") or forename + " " + surname
PscName(psc) ==
    IF psc.name # None /\ psc.name[1] # <<>>
    THEN psc.name[1]
    ELSE psc.name_elements.forename \o <<" ">> \o psc.name_elements.surname

\* lines 171-177: the node of a record, under a root with n children so far
PscNodeOf(psc, n) ==
    PSCNode(IF psc.links.self # None THEN psc.links.self[1]
                                     ELSE "psc_" \o ToString(n),
            Strip(PscName(psc)),
            DetermineEntityType(psc),
            None,
            psc.country_of_residence,
            psc.natures_of_control,
            None)

\* The test of line 180 left out: any record with a registration number
\* is expanded.
ExpandsAnyType(psc) ==
    /\ psc.identification.registration_number # None
    /\ psc.identification.registration_number[1] # ""

\* lines 180-184: whether the record is expanded by a recursive call
Expands(psc) ==
    /\ DetermineEntityType(psc) = "uk_company"
    /\ psc.identification.registration_number # None
    /\ psc.identification.registration_number[1] # ""

\* `visited` passed as it is: caller and callee share one set object.
ShareVisited(heap, ref) == [heap |-> heap, ref |-> ref]

\* line 191: visited.copy() allocates a new set object with the same members.
\* The result is the heap of set objects and the reference passed.
CopyVisited(heap, ref) ==
    [heap |-> Append(heap, heap[ref]), ref |-> Len(heap) + 1]

\* line 201: root_node.children.append(psc_node), and the loop moves on
AppendChild(frame, node) ==
    [frame EXCEPT !.root_node.children = Append(@, node),
                  !.psc_node = EmptyNode,
                  !.i = @ + 1,
                  !.pc = "loop"]

\* lines 163-164: a record with ceased_on is skipped
SkipCeased ==
    /\ InLoop
    /\ SkipsPsc(CurrentPsc)
    /\ stack' = SetTop([Top EXCEPT !.i = @ + 1])
    /\ UNCHANGED <<api_key, company_name, search_response, served, pc,
                   company_info, sets, errors, outcome, response>>

\* lines 166-180, 201: a record that is not expanded becomes a leaf
AppendLeaf ==
    /\ InLoop
    /\ ~SkipsPsc(CurrentPsc)
    /\ ~EntityTypeRaises(CurrentPsc)
    /\ ~Expands(CurrentPsc)
    /\ stack' = SetTop(AppendChild(Top,
                   PscNodeOf(CurrentPsc, Len(Top.root_node.children))))
    /\ UNCHANGED <<api_key, company_name, search_response, served, pc,
                   company_info, sets, errors, outcome, response>>

\* lines 166-194: a UK company with a registration number; the recursive
\* call.  MaxDepth stands for the interpreter's recursion limit; C1 shows
\* that the stack stays below it.
CallChild ==
    /\ InLoop
    /\ ~SkipsPsc(CurrentPsc)
    /\ ~EntityTypeRaises(CurrentPsc)
    /\ Expands(CurrentPsc)
    /\ Len(stack) < MaxDepth
    /\ LET number == CurrentPsc.identification.registration_number[1]
           node   == [PscNodeOf(CurrentPsc, Len(Top.root_node.children))
                        EXCEPT !.company_number = Some(number)]
           passed == CopyVisited(sets, Top.visited)
       IN /\ sets' = passed.heap
          /\ stack' = Append(SetTop([Top EXCEPT !.psc_node = node, !.pc = "await"]),
                             Frame(number, Strip(PscName(CurrentPsc)), passed.ref))
    /\ UNCHANGED <<api_key, company_name, search_response, served, pc,
                   company_info, errors, outcome, response>>

\* lines 203-206: a fault in the loop body ends the loop; the node is
\* returned with the children built so far
ExceptInLoop(frame, errs) ==
    LET error_msg == "Error processing PSCs for " \o frame.company_number
                       \o ": argument of type 'NoneType' is not iterable"
    IN [frame  |-> [frame EXCEPT !.root_node.error = Some(error_msg),
                                 !.pc = "return"],
        errors |-> Append(errs, error_msg)]

\* line 167 raises in determine_entity_type; caught at line 203
RaiseInLoop ==
    /\ InLoop
    /\ ~SkipsPsc(CurrentPsc)
    /\ EntityTypeRaises(CurrentPsc)
    /\ stack' = SetTop(ExceptInLoop(Top, errors).frame)
    /\ errors' = ExceptInLoop(Top, errors).errors
    /\ UNCHANGED <<api_key, company_name, search_response, served, pc,
                   company_info, sets, outcome, response>>

\* line 208, after the loop: return root_node
EndLoop ==
    /\ pc = "building"
    /\ Top.pc = "loop"
    /\ Top.i > Len(Top.pscs)
    /\ stack' = SetTop([Top EXCEPT !.pc = "return"])
    /\ UNCHANGED <<api_key, company_name, search_response, served, pc,
                   company_info, sets, errors, outcome, response>>

\* line 195: psc_node.children = child_tree.children, then line 201
AdoptChildren(caller, child_tree) ==
    AppendChild(caller, [caller.psc_node EXCEPT !.children = child_tree.children])

\* The recursive call returns to line 195.
ReturnToCaller ==
    /\ pc = "building"
    /\ Len(stack) > 1
    /\ Top.pc = "return"
    /\ stack' = [SubSeq(stack, 1, Len(stack) - 1) EXCEPT
                   ![Len(stack) - 1] = AdoptChildren(@, Top.root_node)]
    /\ UNCHANGED <<api_key, company_name, search_response, served, pc,
                   company_info, sets, errors, outcome, response>>

\* lines 196-199, then 201: the recursive call raised
ExceptAtChild(caller, errs, number) ==
    LET error_msg == "Error processing company " \o number
                       \o ": unhashable type: 'list'"
    IN [frame  |-> AppendChild(caller, [caller.psc_node EXCEPT
                                          !.error = Some(error_msg)]),
        errors |-> Append(errs, error_msg)]

\* line 138 raises TypeError for a company_number that cannot be hashed;
\* the call is left and the caller's `except Exception` at line 196 runs.
RaiseAtEntry ==
    /\ pc = "building"
    /\ Len(stack) > 1
    /\ Top.pc = "enter"
    /\ Unhashable(Top.company_number)
    /\ LET caught == ExceptAtChild(stack[Len(stack) - 1], errors, Top.company_number)
       IN /\ stack' = [SubSeq(stack, 1, Len(stack) - 1) EXCEPT
                         ![Len(stack) - 1] = caught.frame]
          /\ errors' = caught.errors
    /\ UNCHANGED <<api_key, company_name, search_response, served, pc,
                   company_info, sets, outcome, response>>

Next ==
    \/ SearchCompany
    \/ RaiseNotFound
    \/ RaiseNoNumber
    \/ CallBuild
    \/ CycleCheckHit
    \/ EnterCompany
    \/ FetchPscs
    \/ SkipCeased
    \/ AppendLeaf
    \/ CallChild
    \/ RaiseInLoop
    \/ EndLoop
    \/ ReturnToCaller
    \/ RaiseAtEntry
    \/ Respond

Spec == Init /\ [][Next]_vars

\* The searches that lead into each branch of get_ownership_structure: a
\* failed search, no result, a result without a number, and active results
\* with a number.
BuildSearches ==
    [status : {"transport"}, items : {<<>>}]
      \cup [status : {"200"},
            items  : SeqsUpTo([company_status : {"active"},
                               title          : {<<"A">>},
                               company_number : {None, Some("001")}], 1)]

BuildInit == InitFrom({<<"a">>}, BuildSearches)

\* The handler runs to its end: every await returns (the provider answers
\* or the 30 s timeout fires) and nothing else is scheduled against it.
FairSpec == BuildInit /\ [][Next]_vars /\ WF_vars(Next)

(***************************************************************************)
(* Trees                                                                   *)
(***************************************************************************)
\* The positions of a tree's nodes, as sequences of child indices.
RECURSIVE Paths(_)
Paths(node) ==
    {<<>>} \cup UNION {{<<i>> \o p : p \in Paths(node.children[i])} :
                         i \in 1..Len(node.children)}

RECURSIVE NodeAt(_, _)
NodeAt(node, path) ==
    IF path = <<>> THEN node ELSE NodeAt(node.children[Head(path)], Tail(path))

NodesOf(node) == {NodeAt(node, p) : p \in Paths(node)}

\* The company numbers on the way from the root down to, not including,
\* the node at `path`.
AncestorNumbers(node, path) ==
    {NodeAt(node, SubSeq(path, 1, k)).company_number : k \in 0..(Len(path) - 1)}

Done200 == pc = "done" /\ outcome = "200"

Tree == response[1].root_company

\* Every tree the state holds: the nodes under construction and the
\* response's.
TreesHeld ==
    {stack[k].root_node : k \in 1..Len(stack)}
      \cup {stack[k].psc_node : k \in 1..Len(stack)}
      \cup (IF response = None THEN {} ELSE {Tree})

Items(c) == IF served[c] = None THEN <<>> ELSE served[c][1].items

(***************************************************************************)
(* C1  Termination on every control graph.                                 *)
(***************************************************************************)
CircularMessage == "Circular reference detected"

\* The call of frame f ended in the cycle check.
HitCycle(f) == f.pc = "return" /\ f.root_node.error = Some(CircularMessage)

\* Every call that got past the cycle check has a visited set one larger
\* than its caller's, so the k-th frame holds k numbers (k - 1 while it is
\* at the check, or when the check hit), and the stack is never deeper than
\* the number of distinct company numbers plus one.
C1_VisitedGrows ==
    /\ \A k \in 1..Len(stack) :
          Cardinality(sets[stack[k].visited]) =
             IF stack[k].pc = "enter" \/ HitCycle(stack[k]) THEN k - 1 ELSE k
    /\ \A k \in 1..Len(stack) : sets[stack[k].visited] \subseteq Companies
    /\ Len(stack) <= Cardinality(Companies) + 1

\* C1: on every control graph the provider serves, cycles and self-ownership
\* included, the request started with an empty visited set comes to its end,
\* and no branch recurses deeper than the number of distinct company numbers
\* plus one, because each call hits the cycle check or enlarges its visited
\* set.
C1_Terminates == []C1_VisitedGrows /\ <>(pc = "done")

\* A request over the cycle 001 -> 002 -> 001 has returned.
C1_Witness ==
    /\ Done200
    /\ Items("001") = <<PscUk("002")>>
    /\ Items("002") = <<PscUk("001")>>

(***************************************************************************)
(* C2  The circular-reference node.                                        *)
(***************************************************************************)
EndsWith(text, suffix) ==
    /\ Len(text) >= Len(suffix)
    /\ SubSeq(text, Len(text) - Len(suffix) + 1, Len(text)) = suffix

IsCircularNode(n) ==
    /\ n.type = "uk_company"
    /\ EndsWith(n.name, CircularSuffix)
    /\ n.error = Some(CircularMessage)
    /\ n.children = <<>>

\* C2: in the tree returned for a graph with a cycle, the node at the second
\* occurrence of a company on a branch is the circular-reference node (type
\* uk_company, name ending in " (circular reference)", error "Circular
\* reference detected", no children); for 001 -> 002 -> 001 the tree is
\* 001 -> 002 -> 001(circular reference), three nodes in all.
C2_CircularNode ==
    Done200 =>
      /\ \A p \in Paths(Tree) :
            LET n == NodeAt(Tree, p) IN
            (n.company_number # None /\ n.company_number \in AncestorNumbers(Tree, p))
               => IsCircularNode(n)
      /\ (Items("001") = <<PscUk("002")>> /\ Items("002") = <<PscUk("001")>>) =>
            /\ Tree.company_number = Some("001")
            /\ Len(Tree.children) = 1
            /\ Tree.children[1].company_number = Some("002")
            /\ Len(Tree.children[1].children) = 1
            /\ Tree.children[1].children[1].company_number = Some("001")
            /\ IsCircularNode(Tree.children[1].children[1])
            /\ response[1].total_nodes = 3

(***************************************************************************)
(* C3  A transport error of the PSC fetch.                                 *)
(***************************************************************************)
TransportFailed(c) == served[c] # None /\ served[c][1].status = "transport"

\* C3: when the PSC fetch of a company fails with a transport error, the
\* response still comes, the node of that company has its error set and the
\* errors list has an entry; when the company is the root, the root has its
\* error set and no children, errors has exactly one entry and totalNodes
\* is 1.
C3_FetchErrorRecorded ==
    /\ (pc = "done" /\ \E c \in Companies : TransportFailed(c)) => outcome = "200"
    /\ Done200 =>
         /\ \A c \in Companies : TransportFailed(c) =>
               /\ response[1].errors # <<>>
               /\ \A p \in Paths(Tree) :
                     LET n == NodeAt(Tree, p) IN
                     (n.company_number = Some(c)
                        /\ n.company_number \notin AncestorNumbers(Tree, p))
                       => n.error # None
         /\ (TransportFailed("001") /\ Tree.company_number = Some("001")) =>
               /\ Tree.error # None
               /\ Tree.children = <<>>
               /\ Len(response[1].errors) = 1
               /\ response[1].total_nodes = 1

(***************************************************************************)
(* C4  Branch isolation.                                                   *)
(***************************************************************************)
\* The node at p stands for a company that is not among its own ancestors.
Expanded(tree, p) ==
    /\ NodeAt(tree, p).company_number # None
    /\ NodeAt(tree, p).company_number \notin AncestorNumbers(tree, p)

ChildIds(n) == [i \in 1..Len(n.children) |-> n.children[i].id]

\* C4: the visited set of every call holds exactly the company numbers of
\* the call's ancestors (and its own, once it is past the cycle check), so a
\* call never changes its caller's set and sibling branches do not see each
\* other: a company met in two branches, on neither as its own ancestor, is
\* expanded in both to the same controlling parties.
C4_BranchIsolation ==
    /\ \A k \in 1..Len(stack) :
          sets[stack[k].visited] =
             {stack[j].company_number :
                j \in 1..(IF stack[k].pc = "enter" \/ HitCycle(stack[k])
                          THEN k - 1 ELSE k)}
    /\ Done200 =>
          \A p, q \in Paths(Tree) :
             (/\ Expanded(Tree, p)
              /\ Expanded(Tree, q)
              /\ NodeAt(Tree, p).company_number = NodeAt(Tree, q).company_number)
               => ChildIds(NodeAt(Tree, p)) = ChildIds(NodeAt(Tree, q))

IsPrefix(p, q) == Len(p) <= Len(q) /\ SubSeq(q, 1, Len(p)) = p

\* One company stands expanded, with children, in two branches of the
\* returned tree.
C4_Witness ==
    /\ Done200
    /\ \E p, q \in Paths(Tree) :
          /\ ~IsPrefix(p, q)
          /\ ~IsPrefix(q, p)
          /\ Expanded(Tree, p)
          /\ Expanded(Tree, q)
          /\ NodeAt(Tree, p).company_number = NodeAt(Tree, q).company_number
          /\ NodeAt(Tree, p).children # <<>>
          /\ NodeAt(Tree, q).children # <<>>

(***************************************************************************)
(* C5  The selection policy of the name search.                            *)
(***************************************************************************)
ActiveAt(items) == {i \in 1..Len(items) : items[i].company_status = "active"}

\* The title holds the name at some offset, letter case set aside.
HoldsName(title, name) ==
    \E k \in 0..(Len(title) - Len(name)) :
       \A i \in 1..Len(name) : LowerChar(title[k + i]) = LowerChar(name[i])

MatchAt(items, name) == {i \in ActiveAt(items) : HoldsName(items[i].title, name)}

Least(S) == CHOOSE i \in S : \A j \in S : i <= j

Preferred(items, name) ==
    IF MatchAt(items, name) # {} THEN Some(items[Least(MatchAt(items, name))])
    ELSE IF ActiveAt(items) # {} THEN Some(items[Least(ActiveAt(items))])
    ELSE None

NoTreeBuilt ==
    /\ response = None
    /\ stack = <<>>
    /\ sets = <<>>
    /\ \A c \in Companies : served[c] = None

SearchAnswered ==
    api_key /\ search_response # None /\ search_response[1].status = "200"

\* C5: for every result sequence the search returns, search_company_by_name
\* gives the first active result whose title contains the name without
\* regard to case; failing that the first active result; and with no active
\* result it gives no match, the request ends NotFound and no tree is built.
C5_SelectionPolicy ==
    /\ (pc = "searched" /\ SearchAnswered) =>
          company_info = Preferred(search_response[1].items, company_name[1])
    /\ (pc = "done" /\ SearchAnswered /\ ActiveAt(search_response[1].items) = {}) =>
          outcome = "404" /\ NoTreeBuilt

\* The second of two active results is chosen because only its title holds
\* the name.
C5_Witness ==
    /\ pc = "searched"
    /\ SearchAnswered
    /\ Len(search_response[1].items) = 2
    /\ ActiveAt(search_response[1].items) = {1, 2}
    /\ MatchAt(search_response[1].items, company_name[1]) = {2}
    /\ company_info = Some(search_response[1].items[2])

(***************************************************************************)
(* C6  Missing credentials.                                                *)
(***************************************************************************)
\* C6: without credentials the request is aborted with the configuration
\* error of get_auth_headers (status 500), not with NotFound, at the first
\* call of the collaborator and before any tree is built.
C6_ConfigurationError ==
    (pc = "done" /\ ~api_key) => (outcome = "500" /\ NoTreeBuilt)

(***************************************************************************)
(* C7  The leaf invariant.                                                 *)
(***************************************************************************)
\* C7: in every tree, under construction or returned, a node has children
\* only if its type is uk_company and its company_number is set; individuals,
\* non-UK companies and UK companies without a registration number are
\* leaves.
C7_LeafInvariant ==
    \A t \in TreesHeld : \A n \in NodesOf(t) :
       n.children # <<>> => (n.type = "uk_company" /\ n.company_number # None)

\* A non-UK company registered under 002 stays a leaf next to the UK company
\* 002, which is expanded.
C7_Witness ==
    /\ Done200
    /\ Items("001") = <<PscForeign, PscUk("002")>>
    /\ Len(Tree.children) = 2
    /\ Tree.children[1].type = "non_uk_company"
    /\ Tree.children[1].children = <<>>
    /\ Tree.children[2].children # <<>>

(***************************************************************************)
(* C8  Ceased PSCs are filtered, order kept.                               *)
(***************************************************************************)
\* A record without a non-empty cessation marker.
KeptAsClaimed(psc) == psc.ceased_on = None \/ psc.ceased_on[1] = ""

NamesOf(records) == [i \in 1..Len(records) |-> Strip(PscName(records[i]))]

ChildNames(n) == [i \in 1..Len(n.children) |-> n.children[i].name]

\* The self links of the records that carry a non-empty cessation marker.
CeasedLinks ==
    {r.links.self[1] : r \in {x \in PscRecords : ~KeptAsClaimed(x)}}

\* C8: the children of a built company node are one node per fetched record
\* without a non-empty cessation marker (marker absent or empty), in the
\* provider's order; a record with a non-empty marker gives no node at any
\* depth, and a record whose marker is empty or absent is never skipped.
C8_CeasedFiltered ==
    /\ \A k \in 1..Len(stack) :
          (stack[k].pc = "return" /\ stack[k].root_node.error = None) =>
             ChildNames(stack[k].root_node)
                = NamesOf(SelectSeq(stack[k].pscs, KeptAsClaimed))
    /\ \A t \in TreesHeld : \A n \in NodesOf(t) : n.id \notin CeasedLinks

(***************************************************************************)
(* C9  Node count.                                                         *)
(***************************************************************************)
\* C9: count_nodes of every node is the number of nodes of its subtree (one
\* for the node and the counts of its children), totalNodes of a response is
\* the number of nodes of its rootCompany tree, and when 001 has one
\* individual and the UK company 002, which has no controlling parties, the
\* root has 2 children, totalNodes is 3 and errors is empty.
C9_NodeCount ==
    /\ \A t \in TreesHeld : \A n \in NodesOf(t) :
          /\ count_nodes(n) = Cardinality(Paths(n))
          /\ count_nodes(n) =
                1 + SumSeq([i \in 1..Len(n.children) |-> count_nodes(n.children[i])])
    /\ response # None =>
          response[1].total_nodes = Cardinality(Paths(Tree))
    /\ (Done200 /\ Items("001") = <<PscAnn, PscUk("002")>>
          /\ served["002"] # None /\ Items("002") = <<>>) =>
          /\ Len(Tree.children) = 2
          /\ response[1].total_nodes = 3
          /\ response[1].errors = <<>>

\* The scenario's response: an individual and the childless company 002.
C9_Witness ==
    /\ Done200
    /\ Items("001") = <<PscAnn, PscUk("002")>>
    /\ served["002"] # None
    /\ Items("002") = <<>>
    /\ Tree.children[1].type = "individual"
    /\ Tree.children[2].company_number = Some("002")
    /\ response[1].total_nodes = 3

(***************************************************************************)
(* C10  A fault in the expansion of one child.                             *)
(***************************************************************************)
\* The expansion of the child on top of the stack has failed: its call
\* raised at entry, or a fault in its loop was caught at line 203.
ChildFaulted ==
    /\ pc = "building"
    /\ Len(stack) > 1
    /\ \/ Top.pc = "enter" /\ Unhashable(Top.company_number)
       \/ Top.pc = "return" /\ Top.root_node.error # None /\ ~HitCycle(Top)

\* The step back into the parent's loop keeps the fault at the child.
ContainedAtChild ==
    LET caller == stack[Len(stack) - 1]
        after  == stack'[Len(stack')]
        kids   == after.root_node.children
        node   == kids[Len(kids)]
    IN /\ pc' = "building"
       /\ Len(stack') = Len(stack) - 1
       /\ after.pc = "loop"
       /\ after.pscs = caller.pscs
       /\ after.i = caller.i + 1
       /\ after.root_node.error = caller.root_node.error
       /\ Len(kids) = Len(caller.root_node.children) + 1
       /\ kids = Append(caller.root_node.children, node)
       /\ node.id = caller.psc_node.id
       /\ node.error # None
       /\ errors' # <<>>
       /\ errors'[Len(errors')] = node.error[1]
       /\ Len(errors') = Len(errors) + (IF Top.pc = "enter" THEN 1 ELSE 0)

\* C10: a fault raised while one UK-company child is expanded stays at that
\* child: the child is appended to its parent's children with its error
\* set, the errors list holds exactly one entry for the fault, the parent's
\* call goes on, and the later records of the parent are still processed in
\* the provider's order.
C10_FaultContained == [][ChildFaulted => ContainedAtChild]_vars

====
